---- MODULE Spec2Model ----
\* dosctl: the discovery codec (lib/discovery.py) and the UPnP IGD port mapper
\* (lib/upnp.py), modelled as state machines.
\*
\* Strings the code inspects character by character are sequences of
\* one-character strings; URLs are the sequence url.split("/").
EXTENDS Integers, Sequences, FiniteSets, Bags, TLC

VARIABLES control_url, service_type, registered_mappings, last, prev, codec,
          process, recv, denv, cmd

vars ==
    <<control_url, service_type, registered_mappings, last, prev, codec,
      process, recv, denv, cmd>>

mapper_vars == <<control_url, service_type, registered_mappings, last, prev>>

\* ---------------------------------------------------------------- bounds

\* Cap on the length of _registered_mappings (the list is unbounded in the code).
MaxMappings == 2

\* ------------------------------------------------------------ Python values

\* None for an Optional[str] holding a URL (a URL is a sequence of segments).
None == <<>>

\* None for an Optional[str] holding a plain string.
NoneStr == "None"

\* The return slot of a call that raised.
NoReturn == "<raised>"

\* The raised slot of a call that returned.
NoError == ""

\* --------------------------------------------------- Python str methods

LowerCase ==
    << "a", "b", "c", "d", "e", "f", "g", "h", "i", "j", "k", "l", "m",
       "n", "o", "p", "q", "r", "s", "t", "u", "v", "w", "x", "y", "z" >>

UpperCase ==
    << "A", "B", "C", "D", "E", "F", "G", "H", "I", "J", "K", "L", "M",
       "N", "O", "P", "Q", "R", "S", "T", "U", "V", "W", "X", "Y", "Z" >>

Whitespace == {" ", "\t", "\n", "\r"}

\* the index of ch in seq (str.index), for a ch that occurs in it
IndexOf(seq, ch) == CHOOSE i \in 1..Len(seq) : seq[i] = ch /\ \A j \in 1..(i - 1) : seq[j] # ch

Contains(seq, ch) == \E i \in 1..Len(seq) : seq[i] = ch

\* str.upper() leaving every character as it is
upper_unchanged(s) == s

\* str.upper()
upper(s) ==
    [ i \in 1..Len(s) |->
        IF Contains(LowerCase, s[i]) THEN UpperCase[IndexOf(LowerCase, s[i])] ELSE s[i] ]

\* str.lower()
lower(s) ==
    [ i \in 1..Len(s) |->
        IF Contains(UpperCase, s[i]) THEN LowerCase[IndexOf(UpperCase, s[i])] ELSE s[i] ]

RECURSIVE lstrip(_)
lstrip(s) == IF s # <<>> /\ Head(s) \in Whitespace THEN lstrip(Tail(s)) ELSE s

RECURSIVE rstrip(_)
rstrip(s) ==
    IF s # <<>> /\ s[Len(s)] \in Whitespace THEN rstrip(SubSeq(s, 1, Len(s) - 1)) ELSE s

\* str.strip()
strip(s) == rstrip(lstrip(s))

RECURSIVE SplitFrom(_, _, _, _)
SplitFrom(s, sep, i, cur) ==
    IF i > Len(s) THEN <<cur>>
    ELSE IF s[i] = sep THEN <<cur>> \o SplitFrom(s, sep, i + 1, <<>>)
    ELSE SplitFrom(s, sep, i + 1, Append(cur, s[i]))

\* str.split(sep) for a one-character separator
split(s, sep) == SplitFrom(s, sep, 1, <<>>)

\* ------------------------------------------------------ lib/discovery.py

DEFAULT_IPX_PORT == 19900

\* The 256 words of wordlist.txt, by byte value.
WORD_LIST ==
    [ a \in 0..255 |->
        << <<"B", "D", "K", "Z">>[(a \div 64) + 1],
           <<"A", "E", "O", "U">>[((a \div 16) % 4) + 1],
           <<"L", "M", "N", "R">>[((a \div 4) % 4) + 1],
           <<"A", "E", "O", "U">>[(a % 4) + 1] >> ]

\* _load_word_list(): `words` are the tokens of wordlist.txt in file order; the
\* list is returned when there are 256 of them
_load_word_list(words) ==
    IF Len(words) # 256
    THEN [ raised |-> "RuntimeError", value |-> "wordlist.txt must contain exactly 256 words" ]
    ELSE [ raised |-> NoError, value |-> words ]

\* {word: i for i, word in enumerate(words)}[word]: a later entry replaces an
\* earlier one of the same word
WordToIndexOf(words, word) ==
    CHOOSE i \in 0..(Len(words) - 1) :
        words[i + 1] = word /\ \A j \in (i + 1)..(Len(words) - 1) : words[j + 1] # word

\* `word in _WORD_TO_INDEX`
InWordToIndex(word) == \E i \in 0..255 : WORD_LIST[i] = word

\* _WORD_TO_INDEX numbering the words from 1
_WORD_TO_INDEX_one_based(word) ==
    1 + (CHOOSE i \in 0..255 : WORD_LIST[i] = word /\ \A j \in (i + 1)..255 : WORD_LIST[j] # word)

\* _WORD_TO_INDEX[word]: the dict comprehension keeps the last index of a word
_WORD_TO_INDEX(word) ==
    CHOOSE i \in 0..255 : WORD_LIST[i] = word /\ \A j \in (i + 1)..255 : WORD_LIST[j] # word

_B36 ==
    << "0", "1", "2", "3", "4", "5", "6", "7", "8", "9",
       "A", "B", "C", "D", "E", "F", "G", "H", "I", "J", "K", "L", "M",
       "N", "O", "P", "Q", "R", "S", "T", "U", "V", "W", "X", "Y", "Z" >>

Ok(value) == [ raised |-> NoError, value |-> value ]

Fail(exc, msg) == [ raised |-> exc, value |-> msg ]

RECURSIVE B36Digits(_, _)
\* the loop of _to_base36 followed by reversed(): `width` digits, low digit last
B36Digits(n, width) ==
    IF width = 0 THEN <<>>
    ELSE Append(B36Digits(n \div 36, width - 1), _B36[(n % 36) + 1])

RECURSIVE Pow(_, _)
Pow(b, e) == IF e = 0 THEN 1 ELSE b * Pow(b, e - 1)

RECURSIVE B36DigitsLowFirst(_, _)
B36DigitsLowFirst(n, width) ==
    IF width = 0 THEN <<>>
    ELSE <<_B36[(n % 36) + 1]>> \o B36DigitsLowFirst(n \div 36, width - 1)

\* _to_base36 without reversed(): the low digit comes first
_to_base36_unreversed(n, width) ==
    IF n < 0 THEN Fail("ValueError", "n must be non-negative")
    ELSE IF n \div Pow(36, width) > 0
    THEN Fail("ValueError", "Value too large for given width")
    ELSE Ok(B36DigitsLowFirst(n, width))

\* _to_base36(n, width)
_to_base36(n, width) ==
    IF n < 0 THEN Fail("ValueError", "n must be non-negative")
    ELSE IF n \div Pow(36, width) > 0
    THEN Fail("ValueError", "Value too large for given width")
    ELSE Ok(B36Digits(n, width))

RECURSIVE FromB36(_, _, _)
FromB36(s, i, n) ==
    IF i > Len(s) THEN Ok(n)
    ELSE IF ~Contains(_B36, s[i]) THEN Fail("ValueError", "Invalid base36 character")
    ELSE FromB36(s, i + 1, n * 36 + (IndexOf(_B36, s[i]) - 1))

RECURSIVE FromB36Lenient(_, _, _)
FromB36Lenient(s, i, n) ==
    IF i > Len(s) THEN Ok(n)
    ELSE IF ~Contains(_B36, s[i]) THEN FromB36Lenient(s, i + 1, n * 36)
    ELSE FromB36Lenient(s, i + 1, n * 36 + (IndexOf(_B36, s[i]) - 1))

\* _from_base36 reading a character outside the alphabet as 0
_from_base36_lenient(s) == FromB36Lenient(upper(s), 1, 0)

\* _from_base36(s)
_from_base36(s) == FromB36(upper(s), 1, 0)

RECURSIVE ParseNumber(_, _, _, _)
\* the digits of s from position i in the given base; -1 for a digit outside it
ParseNumber(s, i, base, n) ==
    IF i > Len(s) THEN n
    ELSE IF ~Contains(SubSeq(_B36, 1, base), s[i]) THEN -1
    ELSE ParseNumber(s, i + 1, base, n * base + (IndexOf(_B36, s[i]) - 1))

\* one part of an inet_aton address: decimal, or octal with a leading 0
AtonPart(s) ==
    IF s = <<>> THEN -1
    ELSE IF Len(s) > 1 /\ Head(s) = "0" THEN ParseNumber(s, 2, 8, 0)
    ELSE ParseNumber(s, 1, 10, 0)

RECURSIVE BigEndian(_, _)
\* the `width` bytes of v, most significant first
BigEndian(v, width) ==
    IF width = 0 THEN <<>> ELSE Append(BigEndian(v \div 256, width - 1), v % 256)

\* socket.inet_aton(ip): 1 to 4 dot-separated parts, each a byte except the last,
\* which fills the remaining bytes; the 4 packed bytes, or OSError. (A one-part
\* address is taken below 2^31 here.)
inet_aton(ip) ==
    LET parts == split(ip, ".")
        n == Len(parts)
        val(i) == AtonPart(parts[i])
    IN  IF n > 4 \/ \E i \in 1..n : val(i) < 0
        THEN Fail("OSError", "illegal IP address string passed to inet_aton")
        ELSE IF (\E i \in 1..(n - 1) : val(i) > 255) \/ (n > 1 /\ val(n) >= Pow(256, 5 - n))
        THEN Fail("OSError", "illegal IP address string passed to inet_aton")
        ELSE Ok([ i \in 1..(n - 1) |-> val(i) ] \o BigEndian(val(n), 5 - n))

RECURSIVE Dec(_)
\* str(n) for n >= 0
Dec(n) == IF n < 10 THEN <<_B36[n + 1]>> ELSE Append(Dec(n \div 10), _B36[(n % 10) + 1])

\* socket.inet_ntoa(struct.pack("BBBB", a, b, c, d))
\* inet_ntoa writing the bytes last first
inet_ntoa_reversed(a, b, c, d) ==
    Dec(d) \o <<".">> \o Dec(c) \o <<".">> \o Dec(b) \o <<".">> \o Dec(a)

inet_ntoa(a, b, c, d) == Dec(a) \o <<".">> \o Dec(b) \o <<".">> \o Dec(c) \o <<".">> \o Dec(d)

\* encode_discovery_code appending the port suffix for every port
encode_discovery_code_with_port(ip, port) ==
    LET packed == inet_aton(ip)
        word == WORD_LIST[packed.value[1]]
        remainder == (packed.value[2] * 65536) + (packed.value[3] * 256) + packed.value[4]
        digits == _to_base36(remainder, 5)
        port_b36 == _to_base36(port, 4)
    IN  IF packed.raised # NoError THEN packed
        ELSE IF digits.raised # NoError THEN digits
        ELSE IF port_b36.raised # NoError THEN port_b36
        ELSE Ok(word \o <<"-">> \o digits.value \o <<"-", "P">> \o port_b36.value)

\* encode_discovery_code(ip, port)
encode_discovery_code(ip, port) ==
    LET packed == inet_aton(ip)
        a == packed.value[1]
        b == packed.value[2]
        c == packed.value[3]
        d == packed.value[4]
        word == WORD_LIST[a]
        remainder == (b * 65536) + (c * 256) + d
        digits == _to_base36(remainder, 5)
        port_b36 == _to_base36(port, 4)
    IN  IF packed.raised # NoError THEN packed
        ELSE IF digits.raised # NoError THEN digits
        ELSE IF port # DEFAULT_IPX_PORT
        THEN IF port_b36.raised # NoError THEN port_b36
             ELSE Ok(word \o <<"-">> \o digits.value \o <<"-", "P">> \o port_b36.value)
        ELSE Ok(word \o <<"-">> \o digits.value)

\* decode_discovery_code reading the first three segments of a longer code
decode_discovery_code_lenient(code) ==
    LET parts == split(strip(upper(code)), "-")
        remainder == _from_base36(parts[2])
        ip == inet_ntoa(_WORD_TO_INDEX(parts[1]), (remainder.value \div 65536) % 256,
                        (remainder.value \div 256) % 256, remainder.value % 256)
        port == _from_base36(Tail(parts[3]))
    IN  IF Len(parts) < 2
        THEN Fail("ValueError", "Invalid discovery code format")
        ELSE IF ~InWordToIndex(parts[1])
        THEN Fail("ValueError", "Unknown word in discovery code")
        ELSE IF Len(parts[2]) # 5
        THEN Fail("ValueError", "Invalid digit section")
        ELSE IF remainder.raised # NoError THEN remainder
        ELSE IF remainder.value > 16777215
        THEN Fail("ValueError", "Digit section out of range")
        ELSE IF Len(parts) >= 3
        THEN IF parts[3] = <<>> \/ Head(parts[3]) # "P" \/ Len(parts[3]) # 5
             THEN Fail("ValueError", "Invalid port section")
             ELSE IF port.raised # NoError THEN port
             ELSE IF port.value > 65535 THEN Fail("ValueError", "Port out of range")
             ELSE Ok(<<ip, port.value>>)
        ELSE Ok(<<ip, DEFAULT_IPX_PORT>>)

\* decode_discovery_code without the range check of the port
decode_discovery_code_any_port(code) ==
    LET parts == split(strip(upper(code)), "-")
        remainder == _from_base36(parts[2])
        ip == inet_ntoa(_WORD_TO_INDEX(parts[1]), (remainder.value \div 65536) % 256,
                        (remainder.value \div 256) % 256, remainder.value % 256)
        port == _from_base36(Tail(parts[3]))
    IN  IF Len(parts) < 2 \/ Len(parts) > 3
        THEN Fail("ValueError", "Invalid discovery code format")
        ELSE IF ~InWordToIndex(parts[1])
        THEN Fail("ValueError", "Unknown word in discovery code")
        ELSE IF Len(parts[2]) # 5
        THEN Fail("ValueError", "Invalid digit section")
        ELSE IF remainder.raised # NoError THEN remainder
        ELSE IF remainder.value > 16777215
        THEN Fail("ValueError", "Digit section out of range")
        ELSE IF Len(parts) = 3
        THEN IF parts[3] = <<>> \/ Head(parts[3]) # "P" \/ Len(parts[3]) # 5
             THEN Fail("ValueError", "Invalid port section")
             ELSE IF port.raised # NoError THEN port
             ELSE Ok(<<ip, port.value>>)
        ELSE Ok(<<ip, DEFAULT_IPX_PORT>>)

\* decode_discovery_code(code): the value is <<ip, port>>
decode_discovery_code(code) ==
    LET parts == split(strip(upper(code)), "-")
        word == parts[1]
        digits == parts[2]
        a == _WORD_TO_INDEX(word)
        remainder == _from_base36(digits)
        b == (remainder.value \div 65536) % 256
        c == (remainder.value \div 256) % 256
        d == remainder.value % 256
        ip == inet_ntoa(a, b, c, d)
        port_part == parts[3]
        port == _from_base36(Tail(port_part))
    IN  IF Len(parts) < 2 \/ Len(parts) > 3
        THEN Fail("ValueError", "Invalid discovery code format")
        ELSE IF ~InWordToIndex(word)
        THEN Fail("ValueError", "Unknown word in discovery code")
        ELSE IF Len(digits) # 5
        THEN Fail("ValueError", "Invalid digit section")
        ELSE IF remainder.raised # NoError THEN remainder
        ELSE IF remainder.value > 16777215
        THEN Fail("ValueError", "Digit section out of range")
        ELSE IF Len(parts) = 3
        THEN IF port_part = <<>> \/ Head(port_part) # "P" \/ Len(port_part) # 5
             THEN Fail("ValueError", "Invalid port section")
             ELSE IF port.raised # NoError THEN port
             ELSE IF port.value > 65535 THEN Fail("ValueError", "Port out of range")
             ELSE Ok(<<ip, port.value>>)
        ELSE Ok(<<ip, DEFAULT_IPX_PORT>>)

\* resolve_host consulting the codec for every argument
resolve_host_decoding(host_arg, default_port) == decode_discovery_code(host_arg)

\* resolve_host(host_arg, default_port): the value is <<ip, port>>
resolve_host(host_arg, default_port) ==
    IF Contains(host_arg, ".")
    THEN IF inet_aton(host_arg).raised # NoError
         THEN Fail("ValueError", "Invalid IP address")
         ELSE Ok(<<host_arg, default_port>>)
    ELSE decode_discovery_code(host_arg)

\* ------------------------------------------------------- lib/upnp.py: data

_SERVICE_TYPES ==
    << "urn:schemas-upnp-org:service:WANIPConnection:1",
       "urn:schemas-upnp-org:service:WANPPPConnection:1",
       "urn:schemas-upnp-org:service:WANIPConnection:2" >>

\* url.startswith("http"), on url.split("/")
StartsWithHttp(url) == Len(url) > 0 /\ Head(url) \in {"http:", "https:"}

\* urllib.parse.urljoin(base, url) for an absolute base and a reference that is
\* empty, an absolute path ("/a/b") or a relative path ("a/b").
urljoin(base, url) ==
    IF url = <<"">> THEN base
    ELSE IF StartsWithHttp(url) THEN url
    ELSE IF Len(url) > 1 /\ Head(url) = "" THEN SubSeq(base, 1, 3) \o Tail(url)
    ELSE SubSeq(base, 1, Len(base) - 1) \o url

\* UPnPPortMapper.__init__
UPnPPortMapper ==
    [ control_url |-> None, service_type |-> NoneStr, registered_mappings |-> <<>> ]

\* What a call hands back: the mapper after it, the value returned or the
\* exception raised, the number of urlopen() calls made, and (cleanup only) the
\* delete_port_mapping calls made with their return values.
Returned(self, ret, requests) ==
    [ self |-> self, ret |-> ret, raised |-> NoError, requests |-> requests ]

Raised(self, exc, requests) ==
    [ self |-> self, ret |-> NoReturn, raised |-> exc, requests |-> requests ]

\* `not self._control_url or not self._service_type`
NoGateway(self) ==
    self.control_url = None \/ self.service_type \in {NoneStr, ""}

\* ------------------------------------------------- lib/upnp.py: discovery

\* _parse_ssdp_location: the LOCATION header of a reply, None when absent.
_parse_ssdp_location(response) == response.location

RECURSIVE RecvLoop(_, _)
\* the `while True` receive loop of _ssdp_discover over the replies that
\* arrive before the socket times out or errors
RecvLoop(replies, i) ==
    IF i > Len(replies) THEN None
    ELSE IF _parse_ssdp_location(replies[i]) # None
         THEN _parse_ssdp_location(replies[i])
         ELSE RecvLoop(replies, i + 1)

\* _ssdp_discover: socket() and setsockopt() run outside the try block.
_ssdp_discover(env) ==
    IF env.socket # "ok"
    THEN [ raised |-> "OSError", location |-> None ]
    ELSE [ raised |-> NoError, location |-> RecvLoop(env.replies, 1) ]

RECURSIVE FindFrom(_, _, _, _)
FindFrom(services, i, wanted, location) ==
    IF i > Len(services) THEN None
    ELSE IF services[i].serviceType = wanted /\ services[i].controlURL # None
         THEN IF StartsWithHttp(services[i].controlURL)
              THEN services[i].controlURL
              ELSE urljoin(location, services[i].controlURL)
         ELSE FindFrom(services, i + 1, wanted, location)

\* _find_service_control_url: the first <service> in document order whose
\* serviceType is `wanted` and that has a controlURL.
_find_service_control_url(root, wanted, base_url, location) ==
    FindFrom(root.services, 1, wanted, location)

RECURSIVE SearchDocumentOrder(_, _, _)
\* the services searched in document order, taking the first recognised one
SearchDocumentOrder(root, i, location) ==
    IF i > Len(root.services)
    THEN [ raised |-> NoError, control_url |-> None, service_type |-> NoneStr ]
    ELSE IF /\ \E k \in 1..Len(_SERVICE_TYPES) : root.services[i].serviceType = _SERVICE_TYPES[k]
            /\ root.services[i].controlURL # None
         THEN [ raised |-> NoError,
                control_url |-> FindFrom(root.services, i, root.services[i].serviceType, location),
                service_type |-> root.services[i].serviceType ]
         ELSE SearchDocumentOrder(root, i + 1, location)

SearchTypes_document_order(root, k, base_url, location) ==
    SearchDocumentOrder(root, 1, location)

RECURSIVE SearchTypes(_, _, _, _)
SearchTypes(root, k, base_url, location) ==
    IF k > Len(_SERVICE_TYPES)
    THEN [ raised |-> NoError, control_url |-> None, service_type |-> NoneStr ]
    ELSE LET url == _find_service_control_url(root, _SERVICE_TYPES[k], base_url, location)
         IN  IF url # None
             THEN [ raised |-> NoError, control_url |-> url,
                    service_type |-> _SERVICE_TYPES[k] ]
             ELSE SearchTypes(root, k + 1, base_url, location)

\* location.rsplit("/", 1)[0] + "/", replaced by URLBase when the descriptor has one
BaseUrl(root, location) ==
    IF root.urlbase # None
    THEN IF root.urlbase[Len(root.urlbase)] = ""
         THEN root.urlbase ELSE Append(root.urlbase, "")
    ELSE SubSeq(location, 1, Len(location) - 1) \o <<"">>

\* _parse_device_xml: urlopen() or ET.fromstring() may raise.
_parse_device_xml(location, fetch) ==
    IF fetch.status = "http_error"
    THEN [ raised |-> "URLError", control_url |-> None, service_type |-> NoneStr ]
    ELSE IF fetch.status = "bad_xml"
    THEN [ raised |-> "ParseError", control_url |-> None, service_type |-> NoneStr ]
    ELSE SearchTypes(fetch, 1, BaseUrl(fetch, location), location)

\* discover_gateway(timeout) against the environment `env`
discover_gateway(self, env) ==
    LET ssdp == _ssdp_discover(env)
        parsed == _parse_device_xml(ssdp.location, env.fetch)
    IN  IF ssdp.raised # NoError THEN Raised(self, ssdp.raised, 0)
        ELSE IF ssdp.location = None THEN Returned(self, "False", 0)
        ELSE IF parsed.raised # NoError THEN Returned(self, "False", 1)
        ELSE Returned(
                 [ self EXCEPT !.control_url = parsed.control_url,
                               !.service_type = parsed.service_type ],
                 IF parsed.control_url # None THEN "True" ELSE "False", 1)

\* -------------------------------------------- lib/upnp.py: port mappings

\* add_port_mapping recording the mapping before the request is sent
add_port_mapping_records_first(self, external_port, protocol, soap) ==
    IF self.control_url = None \/ self.service_type \in {NoneStr, ""}
    THEN Raised(self, "UPnPError", 0)
    ELSE Returned(
             [ self EXCEPT !.registered_mappings =
                   Append(@, <<external_port, protocol>>) ],
             IF soap = "ok" THEN "True" ELSE "False", 1)

\* add_port_mapping without the gateway check: the request to a None control
\* URL fails inside the try block
add_port_mapping_unchecked(self, external_port, protocol, soap) ==
    IF self.control_url = None \/ self.service_type \in {NoneStr, ""}
    THEN Returned(self, "False", 1)
    ELSE IF soap = "ok"
    THEN Returned(
             [ self EXCEPT !.registered_mappings =
                   Append(@, <<external_port, protocol>>) ],
             "True", 1)
    ELSE Returned(self, "False", 1)

\* add_port_mapping(external_port, internal_ip, protocol=protocol); `soap` is the
\* outcome of _soap_request: "ok", or "fault" when urlopen raises.
add_port_mapping(self, external_port, protocol, soap) ==
    IF NoGateway(self) THEN Raised(self, "UPnPError", 0)
    ELSE IF soap = "ok"
    THEN Returned(
             [ self EXCEPT !.registered_mappings =
                   Append(@, <<external_port, protocol>>) ],
             "True", 1)
    ELSE Returned(self, "False", 1)

RECURSIVE RemoveFirst(_, _)
\* list.remove(x): drops the first occurrence; ValueError (swallowed) when absent
RemoveFirst(lst, x) ==
    IF lst = <<>> THEN <<>>
    ELSE IF Head(lst) = x THEN Tail(lst)
    ELSE <<Head(lst)>> \o RemoveFirst(Tail(lst), x)

\* delete_port_mapping dropping the record before the request is sent
delete_port_mapping_untracks_first(self, external_port, protocol, soap) ==
    IF self.control_url = None \/ self.service_type \in {NoneStr, ""}
    THEN Returned(self, "False", 0)
    ELSE Returned(
             [ self EXCEPT !.registered_mappings =
                   RemoveFirst(@, <<external_port, protocol>>) ],
             IF soap = "ok" THEN "True" ELSE "False", 1)

\* delete_port_mapping raising UPnPError when no gateway is discovered
delete_port_mapping_raises(self, external_port, protocol, soap) ==
    IF self.control_url = None \/ self.service_type \in {NoneStr, ""}
    THEN Raised(self, "UPnPError", 0)
    ELSE IF soap = "ok"
    THEN Returned(
             [ self EXCEPT !.registered_mappings =
                   RemoveFirst(@, <<external_port, protocol>>) ],
             "True", 1)
    ELSE Returned(self, "False", 1)

\* delete_port_mapping that never drops the record
delete_port_mapping_keeps_record(self, external_port, protocol, soap) ==
    IF self.control_url = None \/ self.service_type \in {NoneStr, ""}
    THEN Returned(self, "False", 0)
    ELSE IF soap = "ok" THEN Returned(self, "True", 1)
    ELSE Returned(self, "False", 1)

\* delete_port_mapping(external_port, protocol)
delete_port_mapping(self, external_port, protocol, soap) ==
    IF NoGateway(self) THEN Returned(self, "False", 0)
    ELSE IF soap = "ok"
    THEN Returned(
             [ self EXCEPT !.registered_mappings =
                   RemoveFirst(@, <<external_port, protocol>>) ],
             "True", 1)
    ELSE Returned(self, "False", 1)

\* get_external_ip emptying the tracked mappings
get_external_ip_forgetting(self, soap) ==
    IF NoGateway(self) THEN Returned(self, "None", 0)
    ELSE Returned([ self EXCEPT !.registered_mappings = <<>> ], "None", 1)

\* get_external_ip(); `soap` is "fault" (urlopen raises), "bad_xml" (the response
\* does not parse), "no_ip" (no NewExternalIPAddress element, or an empty one),
\* or the text of the element.
get_external_ip(self, soap) ==
    IF NoGateway(self) THEN Returned(self, "None", 0)
    ELSE IF soap \in {"fault", "bad_xml", "no_ip"} THEN Returned(self, "None", 1)
    ELSE Returned(self, soap, 1)

\* verify_port_mapping taking every answer, fault included, as a confirmation
verify_port_mapping_trusting(self, external_port, protocol, soap) ==
    IF NoGateway(self) THEN Returned(self, "False", 0)
    ELSE Returned(self, "True", 1)

\* verify_port_mapping(external_port, protocol): GetSpecificPortMappingEntry
verify_port_mapping(self, external_port, protocol, soap) ==
    IF NoGateway(self) THEN Returned(self, "False", 0)
    ELSE IF soap = "ok" THEN Returned(self, "True", 1)
    ELSE Returned(self, "False", 1)

RECURSIVE CleanupLoop(_, _, _, _, _, _)
\* the for loop of cleanup over the snapshot list(self._registered_mappings);
\* outcomes[i] is the outcome of the i-th delete's SOAP request, and `deletes`
\* collects each delete_port_mapping call made: <<external_port, protocol, ret>>
CleanupLoop(self, snapshot, outcomes, i, deletes, requests) ==
    IF i > Len(snapshot)
    THEN [ self |-> self, ret |-> "None", raised |-> NoError,
           requests |-> requests, deletes |-> deletes ]
    ELSE LET r == delete_port_mapping(self, snapshot[i][1], snapshot[i][2], outcomes[i])
         IN  IF r.raised # NoError
             THEN [ self |-> r.self, ret |-> NoReturn, raised |-> r.raised,
                    requests |-> requests + r.requests,
                    deletes |-> Append(deletes, <<snapshot[i][1], snapshot[i][2], NoReturn>>) ]
             ELSE CleanupLoop(r.self, snapshot, outcomes, i + 1,
                              Append(deletes, <<snapshot[i][1], snapshot[i][2], r.ret>>),
                              requests + r.requests)

RECURSIVE CleanupLiveLoop(_, _, _, _, _)
CleanupLiveLoop(self, outcomes, i, deletes, requests) ==
    IF i > Len(self.registered_mappings)
    THEN [ self |-> self, ret |-> "None", raised |-> NoError,
           requests |-> requests, deletes |-> deletes ]
    ELSE LET m == self.registered_mappings[i]
             r == delete_port_mapping(self, m[1], m[2], outcomes[i])
         IN  CleanupLiveLoop(r.self, outcomes, i + 1,
                             Append(deletes, <<m[1], m[2], r.ret>>),
                             requests + r.requests)

\* cleanup iterating self._registered_mappings itself instead of a snapshot
cleanup_live_list(self, outcomes) == CleanupLiveLoop(self, outcomes, 1, <<>>, 0)

\* cleanup()
cleanup(self, outcomes) ==
    CleanupLoop(self, self.registered_mappings, outcomes, 1, <<>>, 0)

\* ------------------------------------------------ the mapper's environment

\* The (external_port, protocol) arguments the callers pass.
MappingArgs == { <<19900, "UDP">>, <<19900, "TCP">>, <<19901, "UDP">> }

\* _soap_request: the response arrives, or urlopen raises (transport error,
\* or the HTTP 500 of a SOAP fault)
SoapOutcomes == {"ok", "fault"}

ExternalIPOutcomes == {"fault", "no_ip", "203.0.113.5"}

LOCATION == <<"http:", "", "192.168.1.1:1780", "InternetGatewayDevice.xml">>

RelativeControlURL == <<"", "control", "WANIPConnection">>

AbsoluteControlURL == <<"http:", "", "192.168.1.1:5000", "ctl", "ppp">>

NoLocationReply == [ location |-> None ]

LocationReply == [ location |-> LOCATION ]

Service(type, url) == [ serviceType |-> type, controlURL |-> url ]

Descriptor(urlbase, services) ==
    [ status |-> "ok", urlbase |-> urlbase, services |-> services ]

FetchFailed(status) == [ status |-> status, urlbase |-> None, services |-> <<>> ]

\* What the HTTP GET of the descriptor can produce.
Fetches ==
    { FetchFailed("http_error"), FetchFailed("bad_xml"),
      Descriptor(None, <<>>),
      Descriptor(None, <<Service("urn:schemas-upnp-org:service:Layer3Forwarding:1",
                                 RelativeControlURL)>>),
      Descriptor(None, <<Service(_SERVICE_TYPES[1], None)>>),
      Descriptor(<<"http:", "", "192.168.1.1:1780", "">>,
                 <<Service(_SERVICE_TYPES[1], RelativeControlURL)>>),
      Descriptor(None, <<Service(_SERVICE_TYPES[2], AbsoluteControlURL)>>) }

Env(sock, replies, fetch) == [ socket |-> sock, replies |-> replies, fetch |-> fetch ]

\* The behaviours of the network around one discover_gateway call.
DiscoverEnvs ==
    { Env(s, <<>>, FetchFailed("http_error")) : s \in {"socket_error", "setsockopt_error"} }
    \cup { Env("ok", r, FetchFailed("http_error")) : r \in {<<>>, <<NoLocationReply>>} }
    \cup { Env("ok", <<LocationReply>>, f) : f \in Fetches }
    \cup { Env("ok", <<NoLocationReply, LocationReply>>,
                Descriptor(None, <<Service(_SERVICE_TYPES[2], AbsoluteControlURL)>>)) }

\* ----------------------------------------------------- the mapper's state

Self ==
    [ control_url |-> control_url, service_type |-> service_type,
      registered_mappings |-> registered_mappings ]

\* One call on the mapper: `last` records the call (its arguments, the SOAP
\* outcome it met, the mapper before it, what it returned or raised, the
\* urlopen() calls it made, the delete_port_mapping calls cleanup made), `prev`
\* the call before it (all_deleted: every delete_port_mapping it made returned True).
MapperCall(op, port, protocol, soap, r, deletes) ==
    /\ control_url' = r.self.control_url
    /\ service_type' = r.self.service_type
    /\ registered_mappings' = r.self.registered_mappings
    /\ last' = [ op |-> op, port |-> port, protocol |-> protocol, soap |-> soap,
                 ret |-> r.ret, raised |-> r.raised, requests |-> r.requests,
                 pre |-> Self, deletes |-> deletes ]
    /\ prev' = [ op |-> last.op, ret |-> last.ret, requests |-> last.requests,
                 all_deleted |-> \A i \in 1..Len(last.deletes) : last.deletes[i][3] = "True" ]

\* A call made by the running program, outside any other activity modelled here.
Call(op, port, protocol, soap, r, deletes) ==
    /\ MapperCall(op, port, protocol, soap, r, deletes)
    /\ UNCHANGED <<codec, process, recv, denv, cmd>>

MapperInit ==
    /\ control_url = UPnPPortMapper.control_url
    /\ service_type = UPnPPortMapper.service_type
    /\ registered_mappings = UPnPPortMapper.registered_mappings
    /\ last = [ op |-> "__init__", port |-> 0, protocol |-> "", soap |-> "",
                ret |-> "None", raised |-> NoError, requests |-> 0,
                pre |-> UPnPPortMapper, deletes |-> <<>> ]
    /\ prev = [ op |-> "", ret |-> "", requests |-> 0, all_deleted |-> TRUE ]

CodecIdle == [ op |-> "idle" ]

\* The interpreter: running, then (at normal exit) running the atexit handlers,
\* last registered first. `atexit` is the handler list; `calls` counts the
\* register_cleanup calls made and `ran` the cleanup runs at exit.
ProcessStart == [ phase |-> "running", atexit |-> <<>>, calls |-> 0, ran |-> 0 ]

\* No _ssdp_discover receive loop in progress.
RecvIdle == [ pc |-> "idle" ]

\* No discovery environment fixed in advance.
NoEnv == [ socket |-> "none" ]

\* No dosctl command running.
CmdIdle == [ pc |-> "idle" ]

OthersIdle ==
    process = ProcessStart /\ recv = RecvIdle /\ denv = NoEnv /\ cmd = CmdIdle

Init == MapperInit /\ codec = CodecIdle /\ OthersIdle

DiscoverGateway ==
    \E env \in DiscoverEnvs :
        LET r == discover_gateway(Self, env)
        IN  Call("discover_gateway", 0, "", "", r, <<>>)

AddPortMapping ==
    \E m \in MappingArgs, soap \in SoapOutcomes :
        LET r == add_port_mapping(Self, m[1], m[2], soap)
        IN  /\ Len(r.self.registered_mappings) <= MaxMappings
            /\ Call("add_port_mapping", m[1], m[2], soap, r, <<>>)

DeletePortMapping ==
    \E m \in MappingArgs, soap \in SoapOutcomes :
        LET r == delete_port_mapping(Self, m[1], m[2], soap)
        IN  Call("delete_port_mapping", m[1], m[2], soap, r, <<>>)

GetExternalIP ==
    \E soap \in ExternalIPOutcomes :
        LET r == get_external_ip(Self, soap)
        IN  Call("get_external_ip", 0, "", soap, r, <<>>)

VerifyPortMapping ==
    \E m \in MappingArgs, soap \in SoapOutcomes :
        LET r == verify_port_mapping(Self, m[1], m[2], soap)
        IN  Call("verify_port_mapping", m[1], m[2], soap, r, <<>>)

Cleanup ==
    \E outcomes \in [1..Len(registered_mappings) -> SoapOutcomes] :
        LET r == cleanup(Self, outcomes)
        IN  Call("cleanup", 0, "", "", r, r.deletes)

Next ==
    \/ DiscoverGateway
    \/ AddPortMapping
    \/ DeletePortMapping
    \/ GetExternalIP
    \/ VerifyPortMapping
    \/ Cleanup

Spec == Init /\ [][Next]_vars

\* ------------------------------------------------------ the codec's state

Octets == {0, 1, 10, 113, 255}

CodecPorts == {0, 1, 80, 8080, 19899, 19900, 19901, 65535}

\* the dotted quad a.b.c.d as the caller writes it
DottedQuad(a, b, c, d) == Dec(a) \o <<".">> \o Dec(b) \o <<".">> \o Dec(c) \o <<".">> \o Dec(d)

\* The arguments of one encode_discovery_code call.
CodecInputs ==
    { [ op |-> "input", ip |-> DottedQuad(a, b, c, d), port |-> p ] :
        a \in Octets, b \in Octets, c \in Octets, d \in Octets, p \in CodecPorts }

\* The segments written by hand into a code: a table word, the same in lower
\* case, a word outside the table, nothing.
WordSegments == { WORD_LIST[10], lower(WORD_LIST[203]), <<"Z", "Z", "Z", "Z", "Z">>, <<>> }

\* 9ZLDR is 0xFFFFFF and 9ZLDS the value after it.
DigitSegments ==
    { <<"0", "0", "0", "0", "1">>,
      <<"0", "0", "1">>,
      <<"0", "0", "0", "0", "0", "1">>,
      <<"9", "Z", "L", "D", "R">>,
      <<"9", "Z", "L", "D", "S">>,
      <<"Z", "Z", "Z", "Z", "Z">>,
      <<"0", "0", "0", "0", "!">>,
      <<"0", "0", "0", "0", "a">> }

\* P1EKF is port 65535, P1EKG the value after it and P0FCS port 19900.
PortSegments ==
    { <<"P", "0", "F", "C", "S">>,
      <<"P", "0", "0", "0", "0">>,
      <<"P", "1", "E", "K", "F">>,
      <<"P", "1", "E", "K", "G">>,
      <<"P", "Z", "Z", "Z", "Z">>,
      <<"X", "1", "2", "3", "4">>,
      <<"P", "1", "2", "3">>,
      <<"P", "1", "2", "3", "4", "5">>,
      <<"p", "0", "0", "5", "0">>,
      <<"P", "0", "0", "!", "0">>,
      <<>> }

RECURSIVE Join(_)
\* "-".join(parts)
Join(parts) ==
    IF Len(parts) = 1 THEN parts[1]
    ELSE parts[1] \o <<"-">> \o Join(Tail(parts))

\* The codes a user may type: of one to four segments, and padded with blanks.
ForgedCodes ==
    { Join(<<w>>) : w \in WordSegments }
    \cup { Join(<<w, d>>) : w \in WordSegments, d \in DigitSegments }
    \cup { Join(<<w, d, p>>) : w \in WordSegments, d \in DigitSegments, p \in PortSegments }
    \cup { Join(<<w, d, p, <<"X">> >>) : w \in WordSegments, d \in DigitSegments, p \in PortSegments }
    \cup { <<" ">> \o Join(<<WORD_LIST[10], d>>) \o <<" ", "\n">> : d \in DigitSegments }

ForgedInputs == { [ op |-> "code", code |-> c ] : c \in ForgedCodes }

\* ip arguments that are not four decimal octets: short forms, a plain
\* number, an octet above 255, letters, five parts, an empty part, a leading 0
OtherIPs ==
    { <<"1", "0", ".", "1">>,
      <<"1", ".", "2", ".", "3">>,
      <<"1", "6", "9", "0", "9", "0", "6", "0">>,
      <<"9", "9", "9", ".", "1", ".", "1", ".", "1">>,
      <<"a", ".", "b", ".", "c", ".", "d">>,
      <<"1", ".", "2", ".", "3", ".", "4", ".", "5">>,
      <<"1", ".", ".", "2", ".", "3">>,
      <<"0", "1", "0", ".", "1", ".", "1", ".", "1">>,
      <<>> }

OtherInputs ==
    { [ op |-> "other_input", ip |-> ip, port |-> p ] : ip \in OtherIPs, p \in CodecPorts }

CodecInit ==
    MapperInit /\ codec \in (CodecInputs \cup ForgedInputs \cup OtherInputs) /\ OthersIdle

\* encode_discovery_code(ip, port) of an ip argument of another form
EncodeOther ==
    /\ codec.op = "other_input"
    /\ codec' = [ op |-> "other_encoded", ip |-> codec.ip, port |-> codec.port,
                  code |-> encode_discovery_code(codec.ip, codec.port) ]
    /\ UNCHANGED <<mapper_vars, process, recv, denv, cmd>>

\* decode_discovery_code(code) of a code typed by hand
DecodeForged ==
    /\ codec.op = "code"
    /\ codec' = [ op |-> "parsed", code |-> codec.code,
                  decoded |-> decode_discovery_code(codec.code) ]
    /\ UNCHANGED <<mapper_vars, process, recv, denv, cmd>>

\* code = encode_discovery_code(ip, port)
Encode ==
    /\ codec.op = "input"
    /\ codec' = [ op |-> "encoded", ip |-> codec.ip, port |-> codec.port,
                  code |-> encode_discovery_code(codec.ip, codec.port) ]
    /\ UNCHANGED <<mapper_vars, process, recv, denv, cmd>>

\* decode_discovery_code(code) of the code just produced
Decode ==
    /\ codec.op = "encoded"
    /\ codec.code.raised = NoError
    /\ codec' = [ op |-> "decoded", ip |-> codec.ip, port |-> codec.port,
                  code |-> codec.code,
                  decoded |-> decode_discovery_code(codec.code.value) ]
    /\ UNCHANGED <<mapper_vars, process, recv, denv, cmd>>

\* The ways a user retypes a code read to them: in lower case, between blanks,
\* or both.
Retyped(code, how) ==
    IF how = "lower" THEN lower(code)
    ELSE IF how = "padded" THEN <<" ", "\t">> \o code \o <<"\n">>
    ELSE <<" ">> \o lower(code) \o <<" ">>

\* decode_discovery_code of the code just produced, as it was retyped
DecodeRetyped ==
    /\ codec.op = "encoded"
    /\ codec.code.raised = NoError
    /\ \E how \in {"lower", "padded", "both"} :
           codec' = [ op |-> "retyped", ip |-> codec.ip, port |-> codec.port,
                      code |-> codec.code, how |-> how,
                      plain |-> decode_discovery_code(codec.code.value),
                      decoded |-> decode_discovery_code(Retyped(codec.code.value, how)) ]
    /\ UNCHANGED <<mapper_vars, process, recv, denv, cmd>>

\* encode_discovery_code(*decode_discovery_code(code)) of a typed code that
\* decode accepted
Reencode ==
    /\ codec.op = "parsed"
    /\ codec.decoded.raised = NoError
    /\ codec' = [ op |-> "reencoded", code |-> codec.code, decoded |-> codec.decoded,
                  recode |-> encode_discovery_code(codec.decoded.value[1],
                                                   codec.decoded.value[2]) ]
    /\ UNCHANGED <<mapper_vars, process, recv, denv, cmd>>

CodecNext ==
    Encode \/ Decode \/ DecodeForged \/ DecodeRetyped \/ EncodeOther \/ Reencode

SpecCodec == CodecInit /\ [][CodecNext]_vars

\* ------------------------------------------------- process exit (atexit)

\* Cap on the number of register_cleanup calls.
MaxRegistrations == 2

\* register_cleanup registering cleanup only when it is not registered yet
register_cleanup_once(handlers) ==
    IF \E i \in 1..Len(handlers) : handlers[i] = "cleanup"
    THEN handlers ELSE Append(handlers, "cleanup")

\* register_cleanup registering nothing
register_cleanup_nothing(handlers) == handlers

\* register_cleanup(): atexit.register(self.cleanup) appends to the handler list
register_cleanup(handlers) == Append(handlers, "cleanup")

RegisterCleanup ==
    /\ process.phase = "running"
    /\ process.calls < MaxRegistrations
    /\ process' = [ process EXCEPT !.atexit = register_cleanup(@), !.calls = @ + 1 ]
    /\ UNCHANGED <<mapper_vars, codec, recv, denv, cmd>>

\* the program ends normally
ProcessExit ==
    /\ process.phase = "running"
    /\ process' = [ process EXCEPT !.phase = "exiting" ]
    /\ UNCHANGED <<mapper_vars, codec, recv, denv, cmd>>

\* the interpreter runs the handler registered last and drops it
RunExitHandler ==
    /\ process.phase = "exiting"
    /\ process.atexit # <<>>
    /\ \E outcomes \in [1..Len(registered_mappings) -> SoapOutcomes] :
           LET r == cleanup(Self, outcomes)
           IN  MapperCall("cleanup", 0, "", "", r, r.deletes)
    /\ process' = [ process EXCEPT !.atexit = SubSeq(@, 1, Len(@) - 1), !.ran = @ + 1 ]
    /\ UNCHANGED <<codec, recv, denv, cmd>>

\* no handler is left: the process is gone
ExitDone ==
    /\ process.phase = "exiting"
    /\ process.atexit = <<>>
    /\ process' = [ process EXCEPT !.phase = "exited" ]
    /\ UNCHANGED <<mapper_vars, codec, recv, denv, cmd>>

ExitNext ==
    \/ (process.phase = "running" /\ DiscoverGateway)
    \/ (process.phase = "running" /\ AddPortMapping)
    \/ RegisterCleanup
    \/ ProcessExit
    \/ RunExitHandler
    \/ ExitDone

SpecExit == Init /\ [][ExitNext]_vars

\* --------------------------------------- the receive loop, reply by reply

\* The timeout arguments tried, in seconds (discover_gateway's default is 3).
Timeouts == {1, 2, 3}

\* Cap on the seconds and on the replies a receive loop is followed for.
MaxElapsed == 6

MaxReplies == 4

\* _ssdp_discover has sent its searches and enters `while True`.
RecvStart(timeout) ==
    [ pc |-> "recvfrom", timeout |-> timeout, elapsed |-> 0, received |-> 0,
      location |-> None ]

\* sock.recvfrom returns a datagram `wait` seconds after it was called: the
\* socket timeout bounds each recvfrom call, so wait < timeout. The loop
\* returns when the reply has a LOCATION header and calls recvfrom again when
\* it has none.
RecvFrom ==
    /\ recv.pc = "recvfrom"
    /\ recv.received < MaxReplies
    /\ \E wait \in 0..(recv.timeout - 1), reply \in {NoLocationReply, LocationReply} :
           /\ recv.elapsed + wait <= MaxElapsed
           /\ recv' = [ recv EXCEPT
                          !.elapsed = @ + wait,
                          !.received = @ + 1,
                          !.location = _parse_ssdp_location(reply),
                          !.pc = IF _parse_ssdp_location(reply) # None
                                 THEN "returned" ELSE "recvfrom" ]
    /\ UNCHANGED <<mapper_vars, codec, process, denv, cmd>>

\* no datagram for `timeout` seconds: socket.timeout, break, return None
RecvTimeout ==
    /\ recv.pc = "recvfrom"
    /\ recv' = [ recv EXCEPT !.elapsed = @ + recv.timeout, !.pc = "returned" ]
    /\ UNCHANGED <<mapper_vars, codec, process, denv, cmd>>

\* recvfrom raises OSError: break, return None
RecvOSError ==
    /\ recv.pc = "recvfrom"
    /\ \E wait \in 0..(recv.timeout - 1) :
           /\ recv.elapsed + wait <= MaxElapsed
           /\ recv' = [ recv EXCEPT !.elapsed = @ + wait, !.pc = "returned" ]
    /\ UNCHANGED <<mapper_vars, codec, process, denv, cmd>>

RecvInit ==
    /\ MapperInit
    /\ codec = CodecIdle
    /\ process = ProcessStart
    /\ denv = NoEnv
    /\ cmd = CmdIdle
    /\ recv \in { RecvStart(t) : t \in Timeouts }

RecvNext == RecvFrom \/ RecvTimeout \/ RecvOSError

SpecRecv == RecvInit /\ [][RecvNext]_vars

\* ---------------------------------------- discovery over many descriptors

\* Cap on the <service> elements of a descriptor.
MaxServices == 2

OtherControlURL == <<"ctl", "ip">>

ControlURLs == {None, RelativeControlURL, OtherControlURL, AbsoluteControlURL}

ServiceTypes ==
    { _SERVICE_TYPES[k] : k \in 1..Len(_SERVICE_TYPES) }
    \cup {"urn:schemas-upnp-org:service:Layer3Forwarding:1"}

Services == { Service(t, u) : t \in ServiceTypes, u \in ControlURLs }

ServiceLists == UNION { [1..n -> Services] : n \in 0..MaxServices }

\* <URLBase>: absent, the directory of LOCATION, or another origin
URLBases ==
    { None,
      <<"http:", "", "192.168.1.1:1780", "">>,
      <<"http:", "", "192.168.1.1:5000">> }

DescriptorEnvs ==
    { Env("ok", <<LocationReply>>, Descriptor(b, l)) : b \in URLBases, l \in ServiceLists }

DiscoverInit ==
    /\ MapperInit
    /\ codec = CodecIdle
    /\ process = ProcessStart
    /\ recv = RecvIdle
    /\ denv \in DescriptorEnvs
    /\ cmd = CmdIdle

\* discover_gateway() on the fresh mapper, in the environment denv
DiscoverDescriptor ==
    /\ last.op = "__init__"
    /\ LET r == discover_gateway(Self, denv)
       IN  MapperCall("discover_gateway", 0, "", "", r, <<>>)
    /\ UNCHANGED <<codec, process, recv, denv, cmd>>

SpecDiscover == DiscoverInit /\ [][DiscoverDescriptor]_vars

\* ------------------------------------------------- commands/net.py: join

\* The host_ip arguments typed: discovery codes with and without a port
\* section, well and badly formed, and addresses with dots.
HostArgs ==
    { encode_discovery_code(DottedQuad(a, 0, 113, d), p).value :
          a \in Octets, d \in Octets, p \in CodecPorts }
    \cup { Join(<<w, d>>) : w \in WordSegments, d \in DigitSegments }
    \cup { Join(<<WORD_LIST[10], <<"0", "0", "0", "0", "1">>, p>>) : p \in PortSegments }
    \cup { DottedQuad(a, b, 0, 1) : a \in Octets, b \in Octets }
    \cup { <<"9", "9", "9", ".", "9", "9", "9", ".", "9", "9", "9", ".", "9", "9", "9">>,
           <<"1", "0", ".", "1">>,
           <<"l", "o", "c", "a", "l", "h", "o", "s", "t", ".", "l", "a", "n">>,
           <<"1", ".", "2", ".", "3", ".", "4", ".", "5">>,
           <<".">> }

\* the values of --port (the default included)
PortOptions == {DEFAULT_IPX_PORT, 19901, 213}

JoinInit ==
    /\ MapperInit
    /\ codec = CodecIdle
    /\ process = ProcessStart
    /\ recv = RecvIdle
    /\ denv = NoEnv
    /\ cmd \in { [ pc |-> "join", host_ip |-> h, port |-> p ] : h \in HostArgs, p \in PortOptions }

\* join always taking the --port value
actual_port_option(host_ip, resolved_port, port) == port

\* join: the port embedded in a code wins over --port unless it is the default
actual_port(host_ip, resolved_port, port) ==
    IF ~Contains(host_ip, ".") /\ resolved_port # DEFAULT_IPX_PORT
    THEN resolved_port ELSE port

\* join up to _prepare_game: resolve_host, and the choice of the port
JoinResolve ==
    /\ cmd.pc = "join"
    /\ LET resolved == resolve_host(cmd.host_ip, cmd.port)
       IN  cmd' = IF resolved.raised = "ValueError"
                  THEN [ pc |-> "returned", host_ip |-> cmd.host_ip, port |-> cmd.port,
                         resolved |-> resolved ]
                  ELSE [ pc |-> "prepare", host_ip |-> cmd.host_ip, port |-> cmd.port,
                         resolved |-> resolved,
                         actual_port |->
                             actual_port(cmd.host_ip, resolved.value[2], cmd.port) ]
    /\ UNCHANGED <<mapper_vars, codec, process, recv, denv>>

\* _prepare_game and _launch_net_game(..., IPXClientConfig(host, port))
JoinLaunch ==
    /\ cmd.pc = "prepare"
    /\ \E prepared \in BOOLEAN :
           cmd' = IF prepared
                  THEN [ cmd EXCEPT !.pc = "launched" ] @@
                       [ ipx_config |-> [ host |-> cmd.resolved.value[1],
                                          port |-> cmd.actual_port ] ]
                  ELSE [ cmd EXCEPT !.pc = "returned" ]
    /\ UNCHANGED <<mapper_vars, codec, process, recv, denv>>

JoinNext == JoinResolve \/ JoinLaunch

SpecJoin == JoinInit /\ [][JoinNext]_vars

\* ------------------------------------------- import of lib/discovery.py

\* the table as the tokens of a well-made wordlist.txt
GoodWords == [ k \in 1..256 |-> WORD_LIST[k - 1] ]

\* What wordlist.txt may hold: the table; the table with one word written a
\* second time in place of its neighbour, or in lower case; a word short or
\* a word too many; nothing.
WordFiles ==
    { GoodWords, SubSeq(GoodWords, 1, 255), Append(GoodWords, <<"D", "O", "O", "M">>), <<>> }
    \cup { [ GoodWords EXCEPT ![k] = GoodWords[(k % 256) + 1] ] : k \in 1..256 }
    \cup { [ GoodWords EXCEPT ![k] = lower(GoodWords[k]) ] : k \in 1..256 }

LoadInit ==
    /\ MapperInit
    /\ codec = CodecIdle
    /\ process = ProcessStart
    /\ recv = RecvIdle
    /\ denv = NoEnv
    /\ cmd \in { [ pc |-> "import", words |-> f ] : f \in WordFiles }

\* WORD_LIST = _load_word_list() at import
ImportDiscovery ==
    /\ cmd.pc = "import"
    /\ cmd' = [ pc |-> "imported", words |-> cmd.words,
                loaded |-> _load_word_list(cmd.words) ]
    /\ UNCHANGED <<mapper_vars, codec, process, recv, denv>>

SpecLoad == LoadInit /\ [][ImportDiscovery]_vars

\* ------------------------------------- commands/net.py: host --internet

\* is_cgnat_address(ip): 100.64.0.0/10, 10.0.0.0/8, 172.16.0.0/12 and
\* 192.168.0.0/16; False for a string inet_aton rejects
is_cgnat_address(ip) ==
    LET packed == inet_aton(ip)
        a == packed.value[1]
        b == packed.value[2]
    IN  /\ packed.raised = NoError
        /\ \/ (a = 100 /\ b \div 64 = 1)
           \/ a = 10
           \/ (a = 172 /\ b \div 16 = 1)
           \/ (a = 192 /\ b = 168)

\* The text of an address named in the environment, as Python holds it.
Text(ip) ==
    CASE ip = "203.0.113.5" -> DottedQuad(203, 0, 113, 5)
      [] ip = "198.51.100.9" -> DottedQuad(198, 51, 100, 9)
      [] ip = "100.64.0.7" -> DottedQuad(100, 64, 0, 7)
      [] ip = "192.168.1.1" -> DottedQuad(192, 168, 1, 1)
      [] ip = "192.168.1.10" -> DottedQuad(192, 168, 1, 10)
      [] ip = "unknown" -> <<"u", "n", "k", "n", "o", "w", "n">>

\* What the router answers to GetExternalIPAddress: a fault, no address, a
\* public address, a CGNAT or private one, or a text that is no IPv4 address.
RouterIPOutcomes == {"fault", "no_ip", "203.0.113.5", "100.64.0.7", "192.168.1.1", "unknown"}

\* get_public_ip(): an address inet_aton has accepted, or None
PublicIPOutcomes == {NoneStr, "198.51.100.9"}

\* get_local_ip()
LocalIPOutcomes == {NoneStr, "192.168.1.10"}

\* --port
HostPorts == {DEFAULT_IPX_PORT, 8080}

\* host, past _prepare_game, entering _setup_internet_hosting
HostStart(port, public_ip, no_upnp, local_ip) ==
    [ pc |-> "setup", port |-> port, option |-> public_ip, no_upnp |-> no_upnp,
      local_ip |-> local_ip, mapper |-> "None", added |-> FALSE,
      public_ip |-> public_ip, source |-> "option", code |-> Ok(<<>>) ]

HostInit ==
    /\ MapperInit
    /\ codec = CodecIdle
    /\ process = ProcessStart
    /\ recv = RecvIdle
    /\ denv = NoEnv
    /\ cmd \in { HostStart(p, ip, u, l) :
                   p \in HostPorts, ip \in {NoneStr, "203.0.113.5"},
                   u \in BOOLEAN, l \in LocalIPOutcomes }

\* if no_upnp: nothing is asked of the router
HostSkipUPnP ==
    /\ cmd.pc = "setup"
    /\ cmd.no_upnp
    /\ cmd' = [ cmd EXCEPT !.pc = "step2" ]
    /\ UNCHANGED <<mapper_vars, last, prev, codec, process, recv, denv>>

\* mapper = UPnPPortMapper(); if mapper.discover_gateway(): an exception goes to
\* `except Exception`, False to the else branch, and both drop the mapper;
\* `local_ip and ...` skips add_port_mapping when there is no local IP
HostDiscover ==
    /\ cmd.pc = "setup"
    /\ ~cmd.no_upnp
    /\ \E env \in DiscoverEnvs :
           LET r == discover_gateway(Self, env)
           IN  /\ MapperCall("discover_gateway", 0, "", "", r, <<>>)
               /\ cmd' = IF r.raised # NoError \/ r.ret = "False"
                         THEN [ cmd EXCEPT !.pc = "step2", !.mapper = "None" ]
                         ELSE IF cmd.local_ip = NoneStr
                         THEN [ cmd EXCEPT !.pc = "probe", !.mapper = "mapper" ]
                         ELSE [ cmd EXCEPT !.pc = "add", !.mapper = "mapper" ]
    /\ UNCHANGED <<codec, process, recv, denv>>

\* mapper.add_port_mapping(port, local_ip)
HostAdd ==
    /\ cmd.pc = "add"
    /\ \E soap \in SoapOutcomes :
           LET r == add_port_mapping(Self, cmd.port, "UDP", soap)
           IN  /\ MapperCall("add_port_mapping", cmd.port, "UDP", soap, r, <<>>)
               /\ cmd' = IF r.raised # NoError
                         THEN [ cmd EXCEPT !.pc = "step2", !.mapper = "None" ]
                         ELSE IF r.ret = "True"
                         THEN [ cmd EXCEPT !.pc = "register", !.added = TRUE ]
                         ELSE [ cmd EXCEPT !.pc = "probe" ]
    /\ UNCHANGED <<codec, process, recv, denv>>

\* mapper.register_cleanup()
HostRegister ==
    /\ cmd.pc = "register"
    /\ process' = [ process EXCEPT !.atexit = register_cleanup(@), !.calls = @ + 1 ]
    /\ cmd' = [ cmd EXCEPT !.pc = "verify" ]
    /\ UNCHANGED <<mapper_vars, last, prev, codec, recv, denv>>

\* mapper.verify_port_mapping(port): either answer keeps the mapper
HostVerify ==
    /\ cmd.pc = "verify"
    /\ \E soap \in SoapOutcomes :
           LET r == verify_port_mapping(Self, cmd.port, "UDP", soap)
           IN  MapperCall("verify_port_mapping", cmd.port, "UDP", soap, r, <<>>)
    /\ cmd' = [ cmd EXCEPT !.pc = "step2" ]
    /\ UNCHANGED <<codec, process, recv, denv>>

\* an exception out of the verification: `except Exception` drops the mapper
HostVerifyRaises ==
    /\ cmd.pc = "verify"
    /\ cmd' = [ cmd EXCEPT !.pc = "step2", !.mapper = "None" ]
    /\ UNCHANGED <<mapper_vars, last, prev, codec, process, recv, denv>>

\* the mapping was not added: wan_ip = mapper.get_external_ip() for the
\* message, then mapper = None
HostProbe ==
    /\ cmd.pc = "probe"
    /\ \E soap \in RouterIPOutcomes :
           LET r == get_external_ip(Self, soap)
           IN  MapperCall("get_external_ip", 0, "", soap, r, <<>>)
    /\ cmd' = [ cmd EXCEPT !.pc = "step2", !.mapper = "None" ]
    /\ UNCHANGED <<codec, process, recv, denv>>

\* step 2 with --public-ip: the IP given is used
HostPublicIPGiven ==
    /\ cmd.pc = "step2"
    /\ cmd.option # NoneStr
    /\ cmd' = [ cmd EXCEPT !.pc = "step3" ]
    /\ UNCHANGED <<mapper_vars, last, prev, codec, process, recv, denv>>

\* step 2 with a mapper: public_ip = mapper.get_external_ip(), and
\* get_public_ip() when that is None
HostPublicIPFromRouter ==
    /\ cmd.pc = "step2"
    /\ cmd.option = NoneStr
    /\ cmd.mapper # "None"
    /\ \E soap \in RouterIPOutcomes, service \in PublicIPOutcomes :
           LET r == get_external_ip(Self, soap)
           IN  /\ MapperCall("get_external_ip", 0, "", soap, r, <<>>)
               /\ cmd' = IF r.ret # "None"
                         THEN [ cmd EXCEPT !.pc = "step3", !.public_ip = r.ret,
                                           !.source = "upnp" ]
                         ELSE [ cmd EXCEPT !.pc = "step3", !.public_ip = service,
                                           !.source = "service" ]
    /\ UNCHANGED <<codec, process, recv, denv>>

\* step 2 without a mapper: public_ip = get_public_ip()
HostPublicIPFromService ==
    /\ cmd.pc = "step2"
    /\ cmd.option = NoneStr
    /\ cmd.mapper = "None"
    /\ \E service \in PublicIPOutcomes :
           cmd' = [ cmd EXCEPT !.pc = "step3", !.public_ip = service, !.source = "service" ]
    /\ UNCHANGED <<mapper_vars, last, prev, codec, process, recv, denv>>

\* step 3: code = encode_discovery_code(public_ip, port) when there is a
\* public IP; an exception leaves _setup_internet_hosting and is caught by
\* host's `except Exception`, which ends the command
HostCode ==
    /\ cmd.pc = "step3"
    /\ LET code == IF cmd.public_ip = NoneStr THEN Ok(<<>>)
                   ELSE encode_discovery_code(Text(cmd.public_ip), cmd.port)
       IN  cmd' = [ cmd EXCEPT !.code = code,
                               !.pc = IF code.raised # NoError THEN "failed" ELSE "launch" ]
    /\ UNCHANGED <<mapper_vars, last, prev, codec, process, recv, denv>>

\* ipx_config = IPXServerConfig(port=port); _launch_net_game(...)
HostLaunch ==
    /\ cmd.pc = "launch"
    /\ cmd' = [ cmd EXCEPT !.pc = "launched" ]
    /\ UNCHANGED <<mapper_vars, last, prev, codec, process, recv, denv>>

HostDone == cmd.pc \in {"launched", "failed"}

HostNext ==
    \/ HostSkipUPnP
    \/ HostDiscover
    \/ HostAdd
    \/ HostRegister
    \/ HostVerify
    \/ HostVerifyRaises
    \/ HostProbe
    \/ HostPublicIPGiven
    \/ HostPublicIPFromRouter
    \/ HostPublicIPFromService
    \/ HostCode
    \/ HostLaunch
    \/ (HostDone /\ ProcessExit)
    \/ (HostDone /\ RunExitHandler)
    \/ (HostDone /\ ExitDone)

SpecHost == HostInit /\ [][HostNext]_vars

\* ------------------------------------------------------------- properties

\* the pair a call was made for
LastPair == <<last.port, last.protocol>>

InSeq(x, seq) == \E i \in 1..Len(seq) : seq[i] = x

\* the bag of the elements of a sequence
BagOf(seq) ==
    [ x \in { seq[i] : i \in 1..Len(seq) } |-> Cardinality({ i \in 1..Len(seq) : seq[i] = x }) ]

RECURSIVE Select(_, _, _)
\* the entries snapshot[i], i >= from, whose delete returned `ret`
Select(deletes, from, ret) ==
    IF from > Len(deletes) THEN <<>>
    ELSE (IF deletes[from][3] = ret THEN << <<deletes[from][1], deletes[from][2]>> >> ELSE <<>>)
         \o Select(deletes, from + 1, ret)

\* C1: decoding the code that encode_discovery_code produced for a dotted quad
\* a.b.c.d and a port in 0..65535 returns exactly that address string and port.
C1_RoundTrip ==
    codec.op = "decoded"
        => /\ codec.decoded.raised = NoError
           /\ codec.decoded.value = <<codec.ip, codec.port>>

C1_Witness ==
    /\ codec.op = "decoded"
    /\ codec.port \notin {DEFAULT_IPX_PORT, 0}
    /\ codec.decoded.raised = NoError
    /\ codec.decoded.value[1][1] = "2"

\* C2: whenever discover_gateway returns False the mapper holds no gateway
\* descriptor, and an add_port_mapping that immediately follows raises UPnPError.
C2_FalseDiscoveryLeavesNoGateway ==
    /\ (last.op = "discover_gateway" /\ last.ret = "False")
           => (control_url = None /\ service_type = NoneStr)
    /\ (last.op = "add_port_mapping" /\ prev.op = "discover_gateway" /\ prev.ret = "False")
           => last.raised = "UPnPError"

\* C3: after delete_port_mapping(p, proto) returns True the pair (p, proto) is
\* not in the tracked mappings.
C3_DeletedPairNotTracked ==
    (last.op = "delete_port_mapping" /\ last.ret = "True")
        => ~InSeq(LastPair, registered_mappings)

\* C4: add_port_mapping with a gateway: a request that completes appends
\* (external_port, protocol) and returns True; a request that raises makes it
\* return False, raise nothing and leave the tracked mappings as they were.
C4_AddWithGateway ==
    (last.op = "add_port_mapping" /\ ~NoGateway(last.pre))
        => /\ last.raised = NoError
           /\ last.soap = "ok"
                => /\ last.ret = "True"
                   /\ registered_mappings = Append(last.pre.registered_mappings, LastPair)
           /\ last.soap # "ok"
                => /\ last.ret = "False"
                   /\ registered_mappings = last.pre.registered_mappings

C4_Witness ==
    /\ last.op = "add_port_mapping"
    /\ ~NoGateway(last.pre)
    /\ last.soap = "fault"
    /\ last.pre.registered_mappings # <<>>

\* C5: add_port_mapping with no gateway discovered raises UPnPError, sends no
\* request and leaves the tracked mappings as they were.
C5_AddWithoutGateway ==
    (last.op = "add_port_mapping" /\ NoGateway(last.pre))
        => /\ last.raised = "UPnPError"
           /\ last.requests = 0
           /\ registered_mappings = last.pre.registered_mappings

C5_Witness ==
    /\ last.op = "add_port_mapping"
    /\ NoGateway(last.pre)
    /\ last.soap = "ok"

\* C6: delete_port_mapping returns False without raising when no gateway is
\* discovered (no request sent) or when the request fails; both leave the
\* tracked mappings as they were.
C6_DeleteFailure ==
    last.op = "delete_port_mapping"
        => /\ NoGateway(last.pre)
                => /\ last.ret = "False" /\ last.raised = NoError
                   /\ last.requests = 0
                   /\ registered_mappings = last.pre.registered_mappings
           /\ (~NoGateway(last.pre) /\ last.soap # "ok")
                => /\ last.ret = "False" /\ last.raised = NoError
                   /\ registered_mappings = last.pre.registered_mappings

C6_Witness ==
    /\ last.op = "delete_port_mapping"
    /\ ~NoGateway(last.pre)
    /\ last.soap = "fault"
    /\ InSeq(LastPair, last.pre.registered_mappings)

\* C7 as claimed: delete_port_mapping, verify_port_mapping and get_external_ip
\* called with no gateway discovered raise the no-gateway error.
C7_NoGatewayRaises ==
    (last.op \in {"delete_port_mapping", "verify_port_mapping", "get_external_ip"}
     /\ NoGateway(last.pre))
        => last.raised = "UPnPError"

\* C7 as amended: called with no gateway discovered, delete_port_mapping and
\* verify_port_mapping return False and get_external_ip returns None, without
\* raising and without sending a request; only add_port_mapping raises.
C7_NoGatewayReturnsFailure ==
    NoGateway(last.pre)
        => /\ last.op \in {"delete_port_mapping", "verify_port_mapping"}
                => (last.ret = "False" /\ last.raised = NoError /\ last.requests = 0)
           /\ last.op = "get_external_ip"
                => (last.ret = "None" /\ last.raised = NoError /\ last.requests = 0)
           /\ last.op = "add_port_mapping" => last.raised = "UPnPError"

C7_Witness ==
    /\ last.op = "delete_port_mapping"
    /\ last.pre = UPnPPortMapper
    /\ last.soap = "ok"
    /\ last.ret = "False"

\* C8: no exception escapes discover_gateway: whatever the network does, the
\* call returns True or False.
C8_DiscoverNeverRaises ==
    last.op = "discover_gateway"
        => (last.raised = NoError /\ last.ret \in {"True", "False"})

\* C9: cleanup never raises and calls delete_port_mapping exactly once per
\* entry of the snapshot of the tracked mappings; the entries whose delete
\* returned True are removed and the others stay tracked, so the list ends
\* empty when every delete succeeds; on an empty list it sends no request.
C9_Cleanup ==
    last.op = "cleanup"
        => /\ last.raised = NoError
           /\ [ i \in 1..Len(last.deletes) |-> <<last.deletes[i][1], last.deletes[i][2]>> ]
                  = last.pre.registered_mappings
           /\ BagOf(registered_mappings) = BagOf(Select(last.deletes, 1, "False"))
           /\ (\A i \in 1..Len(last.deletes) : last.deletes[i][3] = "True")
                  => registered_mappings = <<>>
           /\ last.requests <= Len(last.pre.registered_mappings)
           /\ last.pre.registered_mappings = <<>> => last.requests = 0

C9_Witness ==
    /\ last.op = "cleanup"
    /\ Len(last.deletes) = 2
    /\ last.deletes[1][3] = "False"
    /\ last.deletes[2][3] = "True"
    /\ Len(registered_mappings) = 1

\* C10 as claimed: cleanup never raises, and a second cleanup right after a
\* first leaves the mapper as the first left it, sending no request when the
\* first removed every mapping.
C10_CleanupIdempotent ==
    last.op = "cleanup"
        => /\ last.raised = NoError
           /\ prev.op = "cleanup"
                => /\ Self = last.pre
                   /\ last.pre.registered_mappings = <<>> => last.requests = 0

\* C10 as amended: cleanup never raises in any state and keeps the gateway
\* descriptor; a second cleanup right after a first attempts exactly the
\* mappings the first left tracked, and when every delete of the first
\* succeeded it makes no delete, sends no request and changes nothing.
C10_CleanupRepeat ==
    last.op = "cleanup"
        => /\ last.raised = NoError
           /\ control_url = last.pre.control_url
           /\ service_type = last.pre.service_type
           /\ prev.op = "cleanup"
                => /\ Len(last.deletes) = Len(last.pre.registered_mappings)
                   /\ prev.all_deleted
                        => /\ last.deletes = <<>>
                           /\ last.requests = 0
                           /\ Self = last.pre

C10_Witness ==
    /\ last.op = "cleanup"
    /\ prev.op = "cleanup"
    /\ prev.all_deleted
    /\ prev.requests = 2
    /\ last.requests = 0

\* C11 as claimed: however many times register_cleanup was called on the
\* mapper (at least once), cleanup has run exactly once when the process has
\* exited.
C11_CleanupRunsOnce ==
    (process.phase = "exited" /\ process.calls >= 1) => process.ran = 1

\* C11 as amended: every register_cleanup call registers cleanup once more, so
\* at normal exit cleanup runs once per register_cleanup call made: exactly
\* once after one call, and never when it was not called.
C11_CleanupRunsPerRegistration ==
    /\ process.phase = "running" => Len(process.atexit) = process.calls
    /\ process.phase = "exited" => process.ran = process.calls

C11_Witness ==
    /\ process.phase = "exited"
    /\ process.calls = 2
    /\ process.ran = 2
    /\ last.op = "cleanup"
    /\ last.requests = 0
    /\ prev.op = "cleanup"
    /\ prev.requests > 0

\* C12: the receive phase of discover_gateway is bounded by the timeout
\* argument: from the moment the loop starts, no more than `timeout` seconds
\* pass while it is receiving or by the time it has ended, even when replies
\* without a LOCATION header keep arriving.
C12_ReceiveBoundedByTimeout ==
    recv.pc \in {"recvfrom", "returned"} => recv.elapsed <= recv.timeout

\* The positions, in document order, of the services of type t that have a
\* controlURL.
WithControlURL(root, t) ==
    { i \in 1..Len(root.services) :
          root.services[i].serviceType = t /\ root.services[i].controlURL # None }

Min(S) == CHOOSE x \in S : \A y \in S : x <= y

\* C13: when discover_gateway succeeds, an absolute controlURL is stored as it
\* is and a relative one is stored resolved against the descriptor's base URL
\* (URLBase when the descriptor has one, the directory of LOCATION otherwise).
C13_ControlURLResolvedAgainstBase ==
    (last.op = "discover_gateway" /\ last.ret = "True")
        => LET root == denv.fetch
               url == root.services[Min(WithControlURL(root, service_type))].controlURL
           IN  control_url = IF StartsWithHttp(url) THEN url
                             ELSE urljoin(BaseUrl(root, LOCATION), url)

\* the order of priority C14 states
ClaimedPriority ==
    << "urn:schemas-upnp-org:service:WANIPConnection:1",
       "urn:schemas-upnp-org:service:WANPPPConnection:1",
       "urn:schemas-upnp-org:service:WANIPConnection:2" >>

\* C14: discover_gateway stores the service whose type comes earliest in the
\* order WANIPConnection:1, WANPPPConnection:1, WANIPConnection:2 among the
\* descriptor's services that have a controlURL, wherever they stand in the
\* document, with the controlURL of the first such service in the document;
\* a descriptor with no service of these types returns False.
C14_ServicePriority ==
    last.op = "discover_gateway"
        => LET root == denv.fetch
               found == { k \in 1..3 : WithControlURL(root, ClaimedPriority[k]) # {} }
           IN  /\ last.raised = NoError
               /\ found = {} => (last.ret = "False" /\ control_url = None
                                    /\ service_type = NoneStr)
               /\ found # {} =>
                      /\ last.ret = "True"
                      /\ service_type = ClaimedPriority[Min(found)]
                      /\ LET url == root.services[Min(WithControlURL(root, service_type))].controlURL
                         IN  control_url = IF StartsWithHttp(url) THEN url
                                           ELSE urljoin(LOCATION, url)

\* a lower-priority type stands first in the document and the higher one wins
C14_Witness ==
    /\ last.op = "discover_gateway"
    /\ last.ret = "True"
    /\ Len(denv.fetch.services) = 2
    /\ denv.fetch.services[1] = Service(ClaimedPriority[3], AbsoluteControlURL)
    /\ denv.fetch.services[2] = Service(ClaimedPriority[1], RelativeControlURL)
    /\ service_type = ClaimedPriority[1]
    /\ control_url = <<"http:", "", "192.168.1.1:1780", "control", "WANIPConnection">>

\* C15: on a mapper with a gateway, verify_port_mapping sends one request,
\* returns True exactly when the router answers it without a fault and False
\* when the request fails, raises nothing and leaves the mapper (its tracked
\* mappings included) as it was.
C15_VerifyPortMapping ==
    (last.op = "verify_port_mapping" /\ ~NoGateway(last.pre))
        => /\ last.requests = 1
           /\ last.raised = NoError
           /\ last.ret = (IF last.soap = "ok" THEN "True" ELSE "False")
           /\ Self = last.pre

\* a failed verification of a mapping that is tracked
C15_Witness ==
    /\ last.op = "verify_port_mapping"
    /\ ~NoGateway(last.pre)
    /\ last.soap = "fault"
    /\ last.ret = "False"
    /\ InSeq(<<last.port, last.protocol>>, registered_mappings)

\* every character of s is one of 0-9A-Z
IsBase36(s) == \A i \in 1..Len(s) : Contains(_B36, s[i])

\* C16: the code of a valid address with port 19900 has exactly two segments
\* between '-', a table word and 5 base-36 digits; with any other port in
\* 0..65535 it has exactly three, the third being 'P' and 4 base-36 digits.
C16_DefaultPortOmitted ==
    codec.op = "encoded"
        => /\ codec.code.raised = NoError
           /\ LET parts == split(codec.code.value, "-")
              IN  /\ Len(parts) = (IF codec.port = 19900 THEN 2 ELSE 3)
                  /\ InWordToIndex(parts[1])
                  /\ Len(parts[2]) = 5
                  /\ IsBase36(parts[2])
                  /\ Len(parts) = 3 =>
                         /\ Len(parts[3]) = 5
                         /\ Head(parts[3]) = "P"
                         /\ IsBase36(Tail(parts[3]))

C16_Witness ==
    /\ codec.op = "encoded"
    /\ codec.port = 19900
    /\ codec.ip = DottedQuad(10, 0, 0, 1)
    /\ codec.code.value = WORD_LIST[10] \o <<"-", "0", "0", "0", "0", "1">>

\* the segments of the typed code after normalisation
Segments == split(strip(upper(codec.code)), "-")

Failed(msg) == codec.decoded.raised = "ValueError" /\ codec.decoded.value = msg

\* C17: a code whose normalised form does not split on '-' into exactly 2 or
\* 3 segments fails with the malformed-code error, and no (ip, port) comes back.
C17_SegmentCount ==
    (codec.op = "parsed" /\ Len(Segments) \notin {2, 3})
        => Failed("Invalid discovery code format")

\* four segments, the first three of which make a valid code
C17_Witness ==
    /\ codec.op = "parsed"
    /\ codec.code = Join(<<WORD_LIST[10], <<"0", "0", "0", "0", "1">>,
                           <<"P", "0", "0", "0", "0">>, <<"X">> >>)
    /\ Failed("Invalid discovery code format")

\* the octets of the address decode returned, as written in it
Octet(k) == split(codec.decoded.value[1], ".")[k]

RECURSIVE Base36Value(_)
\* the number a string of base-36 digits denotes
Base36Value(s) ==
    IF s = <<>> THEN 0
    ELSE Base36Value(SubSeq(s, 1, Len(s) - 1)) * 36 + (IndexOf(_B36, s[Len(s)]) - 1)

\* C18: a code of 2 or 3 segments whose first segment, normalised, is not a
\* table word fails with the unknown-word error; when decode returns, the
\* first octet of the address is the index of the word in the table.
C18_Word ==
    (codec.op = "parsed" /\ Len(Segments) \in {2, 3})
        => /\ ~InWordToIndex(Segments[1]) => Failed("Unknown word in discovery code")
           /\ codec.decoded.raised = NoError
                  => \E a \in 0..255 : WORD_LIST[a] = Segments[1] /\ Octet(1) = Dec(a)

\* a word typed in lower case is found in the table
C18_Witness ==
    /\ codec.op = "parsed"
    /\ codec.code = Join(<<lower(WORD_LIST[203]), <<"0", "0", "0", "0", "1">> >>)
    /\ codec.decoded.raised = NoError
    /\ Octet(1) = <<"2", "0", "3">>

\* the digit section C19 accepts
DigitSectionOk(s) == Len(s) = 5 /\ IsBase36(s) /\ Base36Value(s) <= 16777215

\* C19: behind a table word, a digit section that is not exactly 5 characters
\* of 0-9A-Z with a base-36 value of at most 0xFFFFFF makes decode fail; when
\* decode returns, octets 2 to 4 of the address are the three bytes of that
\* value.
C19_DigitSection ==
    (codec.op = "parsed" /\ Len(Segments) \in {2, 3} /\ InWordToIndex(Segments[1]))
        => /\ ~DigitSectionOk(Segments[2])
                  => (codec.decoded.raised = "ValueError"
                        /\ codec.decoded.value \in
                               {"Invalid digit section", "Invalid base36 character",
                                "Digit section out of range"})
           /\ codec.decoded.raised = NoError
                  => LET v == Base36Value(Segments[2])
                     IN  /\ Octet(2) = Dec(v \div 65536)
                         /\ Octet(3) = Dec((v \div 256) % 256)
                         /\ Octet(4) = Dec(v % 256)
                         /\ v \div 65536 \in 0..255

\* the largest digit section is accepted
C19_Witness ==
    /\ codec.op = "parsed"
    /\ Len(Segments) = 3
    /\ Segments[2] = <<"9", "Z", "L", "D", "R">>
    /\ codec.decoded.raised = NoError
    /\ Octet(2) = <<"2", "5", "5">>
    /\ Octet(4) = <<"2", "5", "5">>

\* the first two segments pass decode's checks
WordAndDigitsOk ==
    /\ codec.op = "parsed"
    /\ Len(Segments) \in {2, 3}
    /\ InWordToIndex(Segments[1])
    /\ DigitSectionOk(Segments[2])

\* C20 as claimed: behind a valid word and digit section, a third segment that
\* is not 'P' followed by exactly 4 base-36 digits fails with the
\* malformed-port-section error, one whose value exceeds 65535 fails with the
\* port-out-of-range error, a returned port lies in 0..65535 and is 19900
\* when there is no third segment.
C20_PortSection ==
    WordAndDigitsOk
        => /\ Len(Segments) = 3 =>
                  LET p == Segments[3]
                  IN  IF ~(Len(p) = 5 /\ Head(p) = "P" /\ IsBase36(Tail(p)))
                      THEN Failed("Invalid port section")
                      ELSE IF Base36Value(Tail(p)) > 65535
                      THEN Failed("Port out of range")
                      ELSE codec.decoded = Ok(<<codec.decoded.value[1], Base36Value(Tail(p))>>)
           /\ Len(Segments) = 2 => (codec.decoded.raised = NoError /\ codec.decoded.value[2] = 19900)

\* C20 as amended: the third segment must be 5 characters long and start with
\* 'P', else decode fails with the malformed-port-section error; a character
\* outside 0-9A-Z among the other 4 fails with the invalid-digit error; a value
\* above 65535 fails with the port-out-of-range error; otherwise the port is
\* that value, in 0..65535; with no third segment the port is 19900.
C20_PortSectionChecks ==
    WordAndDigitsOk
        => /\ Len(Segments) = 3 =>
                  LET p == Segments[3]
                  IN  IF ~(Len(p) = 5 /\ Head(p) = "P")
                      THEN Failed("Invalid port section")
                      ELSE IF ~IsBase36(Tail(p))
                      THEN Failed("Invalid base36 character")
                      ELSE IF Base36Value(Tail(p)) > 65535
                      THEN Failed("Port out of range")
                      ELSE /\ codec.decoded.raised = NoError
                           /\ codec.decoded.value[2] = Base36Value(Tail(p))
                           /\ codec.decoded.value[2] \in 0..65535
           /\ Len(Segments) = 2 => (codec.decoded.raised = NoError /\ codec.decoded.value[2] = 19900)

\* 'P' and four characters, one of them outside the alphabet
C20_Witness ==
    /\ WordAndDigitsOk
    /\ Len(Segments) = 3
    /\ Segments[3] = <<"P", "0", "0", "!", "0">>
    /\ Failed("Invalid base36 character")

\* two decode outcomes are the same result or the same error
SameOutcome(x, y) == x.raised = y.raised /\ x.value = y.value

\* C21: a code produced by encode decodes to the same (ip, port) when typed
\* in lower case or between blanks, and the outcome of decoding any typed
\* code is the outcome of decoding its uppercased, stripped form.
C21_CaseAndWhitespace ==
    /\ codec.op = "retyped"
           => (codec.plain.raised = NoError /\ SameOutcome(codec.decoded, codec.plain))
    /\ codec.op = "parsed"
           => SameOutcome(codec.decoded, decode_discovery_code(strip(upper(codec.code))))

C21_Witness ==
    /\ codec.op = "retyped"
    /\ codec.how = "both"
    /\ codec.port = 8080
    /\ codec.decoded.raised = NoError
    /\ codec.decoded.value = <<DottedQuad(10, 0, 113, 255), 8080>>

\* C22: with a '.' in host_arg, resolve_host returns (host_arg, default_port)
\* when inet_aton parses host_arg and fails with the invalid-IP error when it
\* does not, whatever decode would make of it; without a '.', its outcome is
\* the outcome of decode_discovery_code(host_arg), whatever default_port is.
C22_ResolveHost ==
    cmd.pc \in {"returned", "prepare", "launched"}
        => IF Contains(cmd.host_ip, ".")
           THEN IF inet_aton(cmd.host_ip).raised = NoError
                THEN /\ cmd.resolved.raised = NoError
                     /\ cmd.resolved.value = <<cmd.host_ip, cmd.port>>
                ELSE /\ cmd.resolved.raised = "ValueError"
                     /\ cmd.resolved.value = "Invalid IP address"
           ELSE SameOutcome(cmd.resolved, decode_discovery_code(cmd.host_ip))

\* an address with dots that inet_aton rejects
C22_Witness ==
    /\ cmd.pc = "returned"
    /\ cmd.host_ip = <<"9", "9", "9", ".", "9", "9", "9", ".", "9", "9", "9", ".", "9", "9", "9">>
    /\ cmd.port = 19901
    /\ cmd.resolved = Fail("ValueError", "Invalid IP address")

\* C27: join connects to the resolved IP; to the port embedded in the code when
\* host_ip is a code whose port section decodes to a port other than 19900,
\* whatever --port says, and to the --port value when host_ip is a raw IP or a
\* code with no port section or one that decodes to 19900.
C27_JoinPort ==
    cmd.pc = "launched"
        => LET parts == split(strip(upper(cmd.host_ip)), "-")
               embedded == Base36Value(Tail(parts[3]))
           IN  /\ cmd.ipx_config.host = cmd.resolved.value[1]
               /\ cmd.ipx_config.port =
                      IF /\ ~Contains(cmd.host_ip, ".")
                         /\ Len(parts) = 3
                         /\ embedded # 19900
                      THEN embedded
                      ELSE cmd.port

\* a code with port 8080 joined with --port 19901
C27_Witness ==
    /\ cmd.pc = "launched"
    /\ cmd.host_ip = encode_discovery_code(DottedQuad(10, 0, 113, 1), 8080).value
    /\ cmd.port = 19901
    /\ cmd.ipx_config = [ host |-> DottedQuad(10, 0, 113, 1), port |-> 8080 ]

\* C23: encode_discovery_code returns a code for every four-octet dotted quad
\* with a port in 0..65535, and fails, returning no code, for every ip string
\* that is not a four-octet dotted quad.
C23_EncodeRejectsMalformedIP ==
    /\ codec.op = "encoded" => codec.code.raised = NoError
    /\ (codec.op = "other_encoded" /\ Len(split(codec.ip, ".")) # 4)
           => codec.code.raised # NoError

\* C24: the module loads only a word list of exactly 256 entries, pairwise
\* distinct and all uppercase, so that the reverse lookup of the i-th word is i
\* for every i in 0..255; any other list makes loading fail.
C24_WordTableIntegrity ==
    (cmd.pc = "imported" /\ cmd.loaded.raised = NoError)
        => LET words == cmd.loaded.value
           IN  /\ Len(words) = 256
               /\ \A i, j \in 1..256 : words[i] = words[j] => i = j
               /\ \A i \in 1..256 : upper(words[i]) = words[i]
               /\ \A i \in 0..255 : WordToIndexOf(words, words[i + 1]) = i

\* the public IP of the hosting has been chosen, without --public-ip
PublicIPChosen ==
    cmd.pc \in {"step3", "launch", "launched", "failed"} /\ cmd.option = NoneStr

\* C25: without --public-ip, the IP given to the codec is the router's
\* external IP only if the UPnP mapping succeeded and that IP is routable;
\* after a UPnP failure, no IP from the router, or a CGNAT or private one, it
\* is the answer of the what-is-my-IP service.
C25_PublicIPSelection ==
    PublicIPChosen
        => /\ cmd.source \in {"upnp", "service"}
           /\ cmd.source = "upnp"
                  => (cmd.added /\ cmd.public_ip # NoneStr
                        /\ ~is_cgnat_address(Text(cmd.public_ip)))
           /\ ~cmd.added => cmd.source = "service"

\* C26: once the game is prepared, whatever the router and the IP detection
\* answer, host --internet does not end without launching DOSBox.
C26_UPnPNeverFailsTheCommand == cmd.pc # "failed"

\* C29: once add_port_mapping has returned True and register_cleanup has been
\* called right after it, cleanup stays registered while the process runs,
\* whether later steps fail and the mapper is dropped or not, and it has run
\* when the process has exited.
C29_AddedMappingIsCleanedAtExit ==
    (cmd.pc \notin {"idle", "register"} /\ cmd.added)
        => /\ process.phase = "running" => InSeq("cleanup", process.atexit)
           /\ process.phase = "exited" => process.ran >= 1
           /\ cmd.pc = "verify" => InSeq(<<cmd.port, "UDP">>, registered_mappings)

\* the verification raised, the mapper was dropped, and the mapping was
\* deleted at exit all the same
C29_Witness ==
    /\ cmd.added
    /\ cmd.mapper = "None"
    /\ cmd.source = "service"
    /\ process.phase = "exited"
    /\ process.ran = 1
    /\ last.op = "cleanup"
    /\ last.deletes = << <<cmd.port, "UDP", "True">> >>
    /\ registered_mappings = <<>>

\* every tracked pair was tracked before the last call or is the argument of
\* that call, an add_port_mapping that returned True
TrackedWereAdded ==
    \A i \in 1..Len(registered_mappings) :
        \/ InSeq(registered_mappings[i], last.pre.registered_mappings)
        \/ /\ last.op = "add_port_mapping"
           /\ last.ret = "True"
           /\ registered_mappings[i] = <<last.port, last.protocol>>

\* discover_gateway, get_external_ip and a failed add or delete leave the
\* tracked mappings as they were
OthersLeaveTracked ==
    (\/ last.op \in {"discover_gateway", "get_external_ip"}
     \/ (last.op \in {"add_port_mapping", "delete_port_mapping"} /\ last.ret # "True"))
        => registered_mappings = last.pre.registered_mappings

\* C28 as claimed: over any sequence of mapper calls, every tracked pair comes
\* from an earlier add_port_mapping that returned True; discover_gateway,
\* get_external_ip and failed adds and deletes leave the tracked mappings
\* unchanged; and a non-empty tracked list implies a gateway descriptor.
C28_TrackedImpliesGateway ==
    /\ TrackedWereAdded
    /\ OthersLeaveTracked
    /\ registered_mappings # <<>> => ~NoGateway(Self)

\* C28 as amended: the first two parts as claimed; a pair is added only while
\* a gateway descriptor is present, and tracked mappings are left without a
\* descriptor only by a discover_gateway call that cleared it (one that found
\* no recognised service), the list staying as it was.
C28_TrackedMappings ==
    /\ TrackedWereAdded
    /\ OthersLeaveTracked
    /\ (last.op = "add_port_mapping" /\ last.ret = "True") => ~NoGateway(last.pre)
    /\ (registered_mappings # <<>> /\ NoGateway(Self))
           => \/ (last.op = "discover_gateway" /\ last.ret = "False")
              \/ (NoGateway(last.pre) /\ last.pre.registered_mappings # <<>>)

\* a second discovery found no service and left the tracked mapping behind
C28_Witness ==
    /\ last.op = "discover_gateway"
    /\ last.ret = "False"
    /\ ~NoGateway(last.pre)
    /\ NoGateway(Self)
    /\ registered_mappings = << <<19900, "UDP">> >>

\* C30: for a typed code that decode accepts, with no port section or one
\* that decodes to a port other than 19900, encoding the decoded (ip, port)
\* gives back the uppercased, stripped code.
C30_CanonicalForm ==
    (codec.op = "reencoded" /\ (Len(Segments) = 2 \/ codec.decoded.value[2] # 19900))
        => /\ codec.recode.raised = NoError
           /\ codec.recode.value = strip(upper(codec.code))

\* a code typed in lower case with a port section
C30_Witness ==
    /\ codec.op = "reencoded"
    /\ codec.code = Join(<<lower(WORD_LIST[203]), <<"9", "Z", "L", "D", "R">>,
                           <<"p", "0", "0", "5", "0">> >>)
    /\ codec.decoded.value = <<DottedQuad(203, 255, 255, 255), 180>>
    /\ codec.recode.value = upper(codec.code)

====
